---- MODULE Spec2Model ----
(***************************************************************************)
(* UFDR-Mounter: a read-only FUSE filesystem over a container file made of *)
(* a metadata prefix followed by an embedded ZIP archive                   *)
(* (src/ufdr_mount.py, class UFDRMount).                                   *)
(*                                                                         *)
(* Strings are sequences of one-character strings, so that strip, split,   *)
(* startswith and concatenation are computed as Python computes them.      *)
(* The one-character name "m" stands for the name "metadata.xml".          *)
(* The container's bytes are kept as runs: a run is either the 4-byte      *)
(* local-header signature PK\x03\x04 or a stretch of n other bytes.        *)
(***************************************************************************)
EXTENDS Integers, Sequences, FiniteSets, TLC

\* ---------------------------------------------------------------- bounds
MaxEntries == 2      \* entries in the archive's entry list
MaxDepth == 3        \* path segments in an entry name
MaxFileSize == 1     \* uncompressed bytes of a file entry
MaxReadSize == 2     \* size argument of read
MaxOffset == 2       \* offset argument of read

\* ------------------------------------------------------- program constants
\* a slip in the chunk size: four bytes more than 16 KiB
HeadSizeWide == 16384 + 4

\* f.read(16384): the window searched for the signature
HeadSize == 16384

\* os.O_RDONLY, os.O_WRONLY, os.O_RDWR: the access mode in open's flags

O_RDONLY == 0
O_WRONLY == 1
O_RDWR == 2

Segs == {"a", "m"}
MetadataName == <<"m">>
MetadataPath == <<"/">> \o MetadataName
RootPath == <<"/">>
None == <<"None">>

Max(a, b) == IF a > b THEN a ELSE b
Min(a, b) == IF a < b THEN a ELSE b

\* ------------------------------------------------------- Python str methods
endswith(s, c) == Len(s) > 0 /\ s[Len(s)] = c

startswith(s, p) == Len(p) <= Len(s) /\ SubSeq(s, 1, Len(p)) = p

RECURSIVE rstrip(_)
rstrip(s) == IF endswith(s, "/") THEN rstrip(SubSeq(s, 1, Len(s) - 1)) ELSE s

RECURSIVE lstrip(_)
lstrip(s) == IF Len(s) > 0 /\ s[1] = "/" THEN lstrip(SubSeq(s, 2, Len(s))) ELSE s

strip(s) == lstrip(rstrip(s))

HasSlash(s) == \E i \in 1..Len(s) : s[i] = "/"

RECURSIVE split(_)
split(s) ==
    IF ~HasSlash(s) THEN <<s>>
    ELSE LET i == CHOOSE k \in 1..Len(s) :
                      s[k] = "/" /\ \A j \in 1..(k - 1) : s[j] # "/"
         IN  <<SubSeq(s, 1, i - 1)>> \o split(SubSeq(s, i + 1, Len(s)))

\* ------------------------------------------------- container bytes as runs
Sig == [kind |-> "sig", len |-> 4]
Fill(n) == [kind |-> "fill", len |-> n]
Part(n) == [kind |-> "part", len |-> n]

SigBytes == <<80, 75, 3, 4>>
FillByte(i) == 60 + (i % 3)

RECURSIVE TotalLen(_)
TotalLen(runs) ==
    IF runs = <<>> THEN 0 ELSE Head(runs).len + TotalLen(Tail(runs))

\* bytes[:n] for n >= 0; cutting a signature leaves a partial signature
RECURSIVE Take(_, _)
Take(runs, n) ==
    IF runs = <<>> \/ n <= 0 THEN <<>>
    ELSE IF Head(runs).len <= n
         THEN <<Head(runs)>> \o Take(Tail(runs), n - Head(runs).len)
         ELSE IF Head(runs).kind = "fill" THEN <<Fill(n)>> ELSE <<Part(n)>>

\* bytes.find(b"PK\x03\x04"): offset of the first whole signature, or -1
RECURSIVE FindFrom(_, _)
FindFrom(runs, base) ==
    IF runs = <<>> THEN -1
    ELSE IF Head(runs).kind = "sig" THEN base
         ELSE FindFrom(Tail(runs), base + Head(runs).len)

find(bytes) == FindFrom(bytes, 0)

\* the byte at 0-based offset i
RECURSIVE ByteFrom(_, _, _)
ByteFrom(runs, base, i) ==
    IF i < base + Head(runs).len
    THEN IF Head(runs).kind = "fill" THEN FillByte(i) ELSE SigBytes[i - base + 1]
    ELSE ByteFrom(Tail(runs), base + Head(runs).len, i)

ByteAt(bytes, i) == ByteFrom(bytes, 0, i)

\* bytes[lo:hi] for lo, hi >= 0, as an explicit byte sequence
Slice(bytes, lo, hi) ==
    LET n     == TotalLen(bytes)
        start == Min(lo, n)
        stop  == Min(hi, n)
    IN  [k \in 1..Max(0, stop - start) |-> ByteAt(bytes, start + k - 1)]

\* ------------------------------------------------------------- the inputs
RECURSIVE Join(_)
Join(segs) ==
    IF Len(segs) = 1 THEN <<segs[1]>>
    ELSE <<segs[1], "/">> \o Join(Tail(segs))

FileNames == {Join(q) : q \in UNION {[1..k -> Segs] : k \in 1..MaxDepth}}
DirNames == {n \o <<"/">> : n \in FileNames}

Contents == {[i \in 1..n |-> i] : n \in 0..MaxFileSize}

Entries == {[filename |-> n, content |-> c] : n \in FileNames, c \in Contents}
               \cup {[filename |-> n, content |-> <<>>] : n \in DirNames}

KiB16 == 16 * 1024
PrefixLens == {0, 2, KiB16 - 4, KiB16 - 3}

\* the entry lists of k entries, in archive order
EntryLists(k) == [1..k -> Entries]

\* Every prefix length with the short entry lists, and every entry list
\* behind a 2-byte prefix.
IsContainer(p, es) == Len(es) <= 1 \/ p = 2

\* The container file: the prefix, one local header (signature first) and
\* the stored data per entry, then the central directory and its end record.
RECURSIVE LocalRecords(_)
LocalRecords(es) ==
    IF es = <<>> THEN <<>>
    ELSE <<Sig, Fill(26 + Len(Head(es).filename) + Len(Head(es).content))>>
             \o LocalRecords(Tail(es))

FileBytes(c) ==
    (IF c.prefix > 0 THEN <<Fill(c.prefix)>> ELSE <<>>)
        \o LocalRecords(c.entries) \o <<Fill(22 + 46 * Len(c.entries))>>

\* zipfile.ZipFile(f).infolist(): the entries in archive order
infolist(c) == c.entries

\* zipfile.ZipFile(f).open(name): the data of the last entry of that name
ZipData(c, name) ==
    LET idx == {i \in 1..Len(c.entries) : c.entries[i].filename = name}
        last == CHOOSE i \in idx : \A j \in idx : j <= i
    IN  c.entries[last].content

\* ------------------------------------------------------ the UFDRMount object
VARIABLES
    container,    \* the file at ufdr_path
    pc,           \* "new", "mounted" (constructed, served by FUSE) or "failed"
    zip_offset,   \* self.zip_offset
    xml_data,     \* self.xml_data
    files_info,   \* self.files_info: path -> record
    dirs,         \* self.dirs
    ret,          \* the FUSE call being answered: its arguments and its reply
    tpc,          \* per FUSE worker thread: where its call stands
    targs,        \* per thread: the call's arguments
    tret,         \* per thread: the call's reply
    th,           \* per thread: the container handle its read opened
    handles,      \* open container handles: file position, entry stream
    proc,         \* the ufdr_mount process: where main or handle_exit stands
    mounted,      \* os.path.ismount(MOUNT_DIR)
    env,          \* the signal sent and what the unmount commands will do
    zfiles,       \* ZipFS.files: the entry names, in dict order
    directories,  \* ZipFS.directories: keys in dict order, and their lists
    zpc           \* "off", "new" or "mounted": whether ZipFS is constructed

tvars == <<tpc, targs, tret, th, handles>>
svars == <<proc, mounted, env>>
zvars == <<zfiles, directories, zpc>>
vars == <<container, pc, zip_offset, xml_data, files_info, dirs, ret, tvars,
          svars, zvars>>

Threads == {1, 2}
HandleIds == {0} \cup Threads
Closed == [pos |-> -1, name |-> None, spos |-> 0]

EmptyMap == [p \in {} |-> None]

Put(map, key, val) ==
    [p \in DOMAIN map \cup {key} |-> IF p = key THEN val ELSE map[p]]

\* _ensure_parents: every cumulative prefix of parts[:-1]
RECURSIVE EnsureLoop(_, _, _, _)
EnsureLoop(parts, i, cumulative, ds) ==
    IF i > Len(parts) - 1 THEN ds
    ELSE LET c == cumulative \o <<"/">> \o parts[i]
         IN  EnsureLoop(parts, i + 1, c, ds \cup {c})

\* a slip in the slice: parts[:-2] instead of parts[:-1]
ensure_parents_short(ds, path) ==
    LET parts == split(strip(path))
    IN  EnsureLoop(SubSeq(parts, 1, Len(parts) - 1), 1, <<>>, ds)

ensure_parents(ds, path) == EnsureLoop(split(strip(path)), 1, <<>>, ds)

is_dir(info) == endswith(info.filename, "/")

\* the loop over all_items: one step per entry, in archive order
ParseItem(st, info) ==
    IF is_dir(info) \/ endswith(info.filename, "/")
    THEN [st EXCEPT !.dirs = @ \cup {<<"/">> \o rstrip(info.filename)}]
    ELSE LET filepath == <<"/">> \o info.filename
         IN  [files |-> Put(st.files, filepath,
                            [filename    |-> info.filename,
                             size        |-> Len(info.content),
                             is_metadata |-> FALSE]),
              dirs  |-> ensure_parents(st.dirs, filepath)]

RECURSIVE ParseItems(_, _)
ParseItems(st, items) ==
    IF items = <<>> THEN st
    ELSE ParseItems(ParseItem(st, Head(items)), Tail(items))

MetadataInfo(xml) ==
    [filename |-> None, size |-> TotalLen(xml), is_metadata |-> TRUE]

\* _parse_ufdr, up to the signature test
head(c) == Take(FileBytes(c), HeadSize)

\* a slip in the order: the pseudo-file injected before the entries are read
parse_ufdr_inject_first(c, off) ==
    LET xml == Take(head(c), off)
        st  == ParseItems([files |-> Put(EmptyMap, MetadataPath, MetadataInfo(xml)),
                           dirs  |-> {RootPath}], infolist(c))
    IN  [xml_data |-> xml, files_info |-> st.files, dirs |-> st.dirs]

\* _parse_ufdr, after the signature was found
parse_ufdr(c, off) ==
    LET xml == Take(head(c), off)
        st  == ParseItems([files |-> EmptyMap, dirs |-> {RootPath}], infolist(c))
    IN  [xml_data   |-> xml,
         files_info |-> Put(st.files, MetadataPath, MetadataInfo(xml)),
         dirs       |-> st.dirs]

NoCall ==
    [op |-> "none", path |-> <<>>, size |-> 0, offset |-> 0, flags |-> 0,
     status |-> "none", kind |-> "none", st_size |-> 0, names |-> <<>>,
     data |-> <<>>]

\* the object as __init__ sets it up before _parse_ufdr, for the file c
ObjStart(c) ==
    /\ container = c
    /\ pc = "new"
    /\ zip_offset = -1
    /\ xml_data = <<>>
    /\ files_info = EmptyMap
    /\ dirs = {}
    /\ ret = NoCall

\* no call on any worker thread
ThreadStart ==
    /\ tpc = [t \in Threads |-> "idle"]
    /\ targs = [t \in Threads |-> NoCall]
    /\ tret = [t \in Threads |-> NoCall]
    /\ th = [t \in Threads |-> 0]
    /\ handles = [h \in HandleIds |-> Closed]

NoEnv == [signal |-> "none", diskutil |-> "none", umount |-> "none"]
NoDirs == [keys |-> <<>>, lists |-> EmptyMap]

\* the process and the mount point are left out of the picture
SigOff == proc = "off" /\ mounted = FALSE /\ env = NoEnv

\* no ZipFS object
ZipOff == zfiles = <<>> /\ directories = NoDirs /\ zpc = "off"

Start(c) == ObjStart(c) /\ ThreadStart /\ SigOff /\ ZipOff

Init ==
    \E p \in PrefixLens, k \in 0..MaxEntries : \E es \in EntryLists(k) :
        IsContainer(p, es) /\ Start([prefix |-> p, entries |-> es])

\* UFDRMount(ufdr_file): __init__ and _parse_ufdr; RuntimeError leaves no object
Construct ==
    /\ pc = "new"
    /\ LET off == find(head(container))
       IN  IF off < 0
           THEN /\ pc' = "failed"
                /\ UNCHANGED <<zip_offset, xml_data, files_info, dirs>>
           ELSE LET o == parse_ufdr(container, off)
                IN  /\ pc' = "mounted"
                    /\ zip_offset' = off
                    /\ xml_data' = o.xml_data
                    /\ files_info' = o.files_info
                    /\ dirs' = o.dirs
    /\ UNCHANGED <<container, ret, tvars, svars, zvars>>

\* ------------------------------------------------------------ FUSE methods
Reply(status) == [NoCall EXCEPT !.status = status]

make_dir_stat == [Reply("ok") EXCEPT !.kind = "dir", !.st_size = 0]

make_file_stat(size) == [Reply("ok") EXCEPT !.kind = "file", !.st_size = size]

getattr(path) ==
    IF path = RootPath THEN make_dir_stat
    ELSE IF path \in dirs THEN make_dir_stat
    ELSE IF path \in DOMAIN files_info
         THEN make_file_stat(files_info[path].size)
         ELSE Reply("ENOENT")

\* sorted(): Python orders strings by code point, shorter prefix first
Ord(c) == CASE c = "." -> 46 [] c = "/" -> 47 [] c = "a" -> 97 [] c = "m" -> 109

Less(s, t) ==
    \E i \in 1..(Len(t)) :
        /\ \A j \in 1..(i - 1) : j <= Len(s) /\ s[j] = t[j]
        /\ (i > Len(s) \/ Ord(s[i]) < Ord(t[i]))

RECURSIVE sorted(_)
sorted(S) ==
    IF S = {} THEN <<>>
    ELSE LET least == CHOOSE x \in S : \A y \in S \ {x} : Less(x, y)
         IN  <<least>> \o sorted(S \ {least})

Dot == <<".">>
DotDot == <<".", ".">>

\* a slip: the direct-child test ("/" not in suffix) left out
Children_deep(paths, path, prefix) ==
    {SubSeq(d, Len(prefix) + 1, Len(d)) :
        d \in {e \in paths : startswith(e, prefix) /\ e # path}}

\* the suffixes readdir appends for one collection of paths
Children(paths, path, prefix) ==
    {SubSeq(d, Len(prefix) + 1, Len(d)) :
        d \in {e \in paths : /\ startswith(e, prefix)
                             /\ e # path
                             /\ ~HasSlash(SubSeq(e, Len(prefix) + 1, Len(e)))}}

readdir(path) ==
    LET prefix == IF endswith(path, "/") THEN path ELSE path \o <<"/">>
    IN  [Reply("ok") EXCEPT !.names =
            sorted({Dot, DotDot} \cup Children(dirs, path, prefix)
                                 \cup Children(DOMAIN files_info, path, prefix))]

\* ZipExtFile.read(n), n >= 0, on a stream at position pos
ZRead(content, pos, n) ==
    [data |-> SubSeq(content, pos + 1, Min(pos + n, Len(content))),
     pos  |-> Min(pos + n, Len(content))]

\* a slip in the skip test: offset > 1 instead of offset > 0
read_from_zip_noskip(path, size, offset) ==
    LET content == ZipData(container, files_info[path].filename)
        skipped == IF offset > 1 THEN ZRead(content, 0, offset).pos ELSE 0
    IN  [Reply("ok") EXCEPT !.data = ZRead(content, skipped, size).data]

read_from_zip(path, size, offset) ==
    LET content == ZipData(container, files_info[path].filename)
        skipped == IF offset > 0 THEN ZRead(content, 0, offset).pos ELSE 0
    IN  [Reply("ok") EXCEPT !.data = ZRead(content, skipped, size).data]

read(path, size, offset) ==
    IF path \in DOMAIN files_info /\ files_info[path].is_metadata
    THEN [Reply("ok") EXCEPT !.data = Slice(xml_data, offset, offset + size)]
    ELSE IF path \in DOMAIN files_info /\ files_info[path].filename # None
         THEN read_from_zip(path, size, offset)
         ELSE Reply("ENOENT")

open(path, flags) ==
    IF path \notin DOMAIN files_info /\ path \notin dirs
    THEN Reply("ENOENT")
    ELSE Reply("ok")

\* ------------------------------------------------ the calls FUSE dispatches
QueryPaths == {RootPath} \cup {<<"/">> \o n : n \in FileNames}
Flags == {O_RDONLY, O_WRONLY, O_RDWR}

Call(op, path, size, offset, flags, reply) ==
    /\ pc = "mounted"
    /\ ret = NoCall
    /\ ret' = [reply EXCEPT !.op = op, !.path = path, !.size = size,
                            !.offset = offset, !.flags = flags]
    /\ UNCHANGED <<container, pc, zip_offset, xml_data, files_info, dirs, tvars,
                   svars, zvars>>

Getattr == \E path \in QueryPaths : Call("getattr", path, 0, 0, 0, getattr(path))

Readdir == \E path \in QueryPaths : Call("readdir", path, 0, 0, 0, readdir(path))

Read ==
    \E path \in QueryPaths, size \in 0..MaxReadSize, offset \in 0..MaxOffset :
        Call("read", path, size, offset, 0, read(path, size, offset))

Open ==
    \E path \in QueryPaths, flags \in Flags :
        Call("open", path, 0, 0, flags, open(path, flags))

\* the reply goes back to the kernel; the next call may be dispatched
Return ==
    /\ ret # NoCall
    /\ ret' = NoCall
    /\ UNCHANGED <<container, pc, zip_offset, xml_data, files_info, dirs, tvars,
                   svars, zvars>>

Next == Construct \/ Getattr \/ Readdir \/ Read \/ Open \/ Return

Spec == Init /\ [][Next]_vars

\* ------------------------------------------ calls on FUSE's worker threads
\* FUSE(...) is started without nothreads, so calls run concurrently; a read
\* of an archive entry goes through _read_from_zip one statement at a time.
ConcEntries ==
    {e \in Entries : ~HasSlash(e.filename) /\ Len(e.content) = MaxFileSize}

ConcPaths == {p \in QueryPaths : Len(p) <= 2}

InitConc ==
    \E k \in 0..MaxEntries : \E es \in [1..k -> ConcEntries] :
        Start([prefix |-> 2, entries |-> es])

index == <<container, pc, zip_offset, xml_data, files_info, dirs, ret,
           svars, zvars>>

Args(op, path, size, offset, flags) ==
    [NoCall EXCEPT !.op = op, !.path = path, !.size = size,
                   !.offset = offset, !.flags = flags]

\* a call that is answered in one step
Answer(t, args, reply) ==
    /\ pc = "mounted"
    /\ tpc[t] = "idle"
    /\ targs' = [targs EXCEPT ![t] = args]
    /\ tret' = [tret EXCEPT ![t] = reply]
    /\ tpc' = [tpc EXCEPT ![t] = "done"]
    /\ UNCHANGED <<index, th, handles>>

TGetattr(t) ==
    \E path \in ConcPaths :
        Answer(t, Args("getattr", path, 0, 0, 0), getattr(path))

TReaddir(t) ==
    \E path \in ConcPaths :
        Answer(t, Args("readdir", path, 0, 0, 0), readdir(path))

TOpen(t) ==
    \E path \in ConcPaths, flags \in Flags :
        Answer(t, Args("open", path, 0, 0, flags), open(path, flags))

\* read: the metadata slice and ENOENT are answered at once; an archive
\* entry enters _read_from_zip
TRead(t) ==
    \E path \in ConcPaths, size \in 0..MaxReadSize, offset \in 0..MaxOffset :
        IF /\ path \in DOMAIN files_info
           /\ ~files_info[path].is_metadata
           /\ files_info[path].filename # None
        THEN /\ pc = "mounted"
             /\ tpc[t] = "idle"
             /\ targs' = [targs EXCEPT ![t] = Args("read", path, size, offset, 0)]
             /\ tpc' = [tpc EXCEPT ![t] = "open_file"]
             /\ UNCHANGED <<index, tret, th, handles>>
        ELSE Answer(t, Args("read", path, size, offset, 0),
                    read(path, size, offset))

\* a handle kept on the object and used by every call
SharedHandle(t) == 0

\* open(self.ufdr_path, "rb"): a file object local to this call
NewHandle(t) == t

\* with open(self.ufdr_path, "rb") as f
TOpenFile(t) ==
    /\ tpc[t] = "open_file"
    /\ th' = [th EXCEPT ![t] = NewHandle(t)]
    /\ handles' = [handles EXCEPT ![NewHandle(t)] =
                       [pos |-> 0, name |-> None, spos |-> 0]]
    /\ tpc' = [tpc EXCEPT ![t] = "seek"]
    /\ UNCHANGED <<index, targs, tret>>

\* f.seek(self.zip_offset)
TSeek(t) ==
    /\ tpc[t] = "seek"
    /\ handles' = [handles EXCEPT ![th[t]].pos = zip_offset]
    /\ tpc' = [tpc EXCEPT ![t] = "zip_open"]
    /\ UNCHANGED <<index, targs, tret, th>>

\* zipfile.ZipFile(f, "r"), z.open(filename): a stream at the entry's start
TZipOpen(t) ==
    /\ tpc[t] = "zip_open"
    /\ handles' = [handles EXCEPT ![th[t]].name = files_info[targs[t].path].filename,
                                  ![th[t]].spos = 0]
    /\ tpc' = [tpc EXCEPT ![t] = "skip"]
    /\ UNCHANGED <<index, targs, tret, th>>

\* a read on a closed file raises ValueError
Fail(t) ==
    /\ tret' = [tret EXCEPT ![t] = Reply("EIO")]
    /\ tpc' = [tpc EXCEPT ![t] = "done"]
    /\ UNCHANGED <<index, targs, th, handles>>

\* if offset > 0: zf.read(offset)
TSkip(t) ==
    /\ tpc[t] = "skip"
    /\ LET h == handles[th[t]]
       IN  IF h.name = None THEN Fail(t)
           ELSE /\ handles' = [handles EXCEPT ![th[t]].spos =
                       IF targs[t].offset > 0
                       THEN ZRead(ZipData(container, h.name), h.spos,
                                  targs[t].offset).pos
                       ELSE h.spos]
                /\ tpc' = [tpc EXCEPT ![t] = "read"]
                /\ UNCHANGED <<index, targs, tret, th>>

\* return zf.read(size); the with blocks close the stream and the file
TReadData(t) ==
    /\ tpc[t] = "read"
    /\ LET h == handles[th[t]]
       IN  IF h.name = None THEN Fail(t)
           ELSE /\ tret' = [tret EXCEPT ![t] =
                       [Reply("ok") EXCEPT !.data =
                           ZRead(ZipData(container, h.name), h.spos,
                                 targs[t].size).data]]
                /\ handles' = [handles EXCEPT ![th[t]] = Closed]
                /\ tpc' = [tpc EXCEPT ![t] = "done"]
                /\ UNCHANGED <<index, targs, th>>

\* the reply goes back to the kernel; the thread takes the next call
TReturn(t) ==
    /\ tpc[t] = "done"
    /\ tpc' = [tpc EXCEPT ![t] = "idle"]
    /\ targs' = [targs EXCEPT ![t] = NoCall]
    /\ tret' = [tret EXCEPT ![t] = NoCall]
    /\ UNCHANGED <<index, th, handles>>

NextConc ==
    \/ Construct
    \/ \E t \in Threads :
           \/ TGetattr(t) \/ TReaddir(t) \/ TOpen(t) \/ TRead(t)
           \/ TOpenFile(t) \/ TSeek(t) \/ TZipOpen(t) \/ TSkip(t)
           \/ TReadData(t) \/ TReturn(t)

SpecConc == InitConc /\ [][NextConc]_vars

\* ------------------------------------------------ main and handle_exit
\* The ufdr_mount process: main sets MOUNT_DIR, builds the UFDRMount and
\* mounts it; a SIGINT or SIGTERM runs handle_exit.  env fixes which signal
\* is sent and what each unmount command does when it is run.
Signals == {"SIGINT", "SIGTERM"}
DiskutilOutcomes == {"missing", "ok", "fails", "timeout"}
UmountOutcomes == {"missing", "ok", "fails", "hangs"}

InitSig ==
    \E k \in 0..MaxEntries : \E es \in [1..k -> ConcEntries] :
    \E s \in Signals, d \in DiskutilOutcomes, u \in UmountOutcomes :
        /\ ObjStart([prefix |-> 2, entries |-> es])
        /\ ThreadStart
        /\ ZipOff
        /\ proc = "start"
        /\ mounted = FALSE
        /\ env = [signal |-> s, diskutil |-> d, umount |-> u]

object == <<container, pc, zip_offset, xml_data, files_info, dirs, ret>>

\* main up to the prints: MOUNT_DIR is set, the mount directory exists
MainSetDir ==
    /\ proc = "start"
    /\ proc' = "dir_set"
    /\ UNCHANGED <<object, mounted, env, tvars, zvars>>

\* FUSE(UFDRMount(ufdr_file), MOUNT_DIR, foreground=True, ...): the
\* constructor's RuntimeError ends the process, otherwise the mount appears
MainMount ==
    /\ proc = "dir_set"
    /\ LET off == find(head(container))
       IN  IF off < 0
           THEN /\ pc' = "failed"
                /\ proc' = "crashed"
                /\ UNCHANGED <<zip_offset, xml_data, files_info, dirs, mounted>>
           ELSE LET o == parse_ufdr(container, off)
                IN  /\ pc' = "mounted"
                    /\ zip_offset' = off
                    /\ xml_data' = o.xml_data
                    /\ files_info' = o.files_info
                    /\ dirs' = o.dirs
                    /\ proc' = "serving"
                    /\ mounted' = TRUE
    /\ UNCHANGED <<container, ret, env, tvars, zvars>>

\* signal.signal(SIGINT / SIGTERM, handle_exit): the signal arrives
Deliver ==
    /\ proc \in {"start", "dir_set", "serving"}
    /\ proc' = "handler"
    /\ UNCHANGED <<object, mounted, env, tvars, zvars>>

\* if MOUNT_DIR and os.path.ismount(MOUNT_DIR)
HandlerTest ==
    /\ proc = "handler"
    /\ proc' = IF mounted THEN "diskutil" ELSE "exit"
    /\ UNCHANGED <<object, mounted, env, tvars, zvars>>

\* subprocess.run(["diskutil", "unmount", MOUNT_DIR], check=False, timeout=5):
\* only FileNotFoundError and TimeoutExpired reach the except clause
HandlerDiskutil ==
    /\ proc = "diskutil"
    /\ proc' = IF env.diskutil \in {"missing", "timeout"} THEN "umount" ELSE "exit"
    /\ mounted' = IF env.diskutil = "ok" THEN FALSE ELSE mounted
    /\ UNCHANGED <<object, env, tvars, zvars>>

\* subprocess.run(["umount", MOUNT_DIR], check=False): no timeout, and a
\* missing command raises out of the handler
HandlerUmount ==
    /\ proc = "umount"
    /\ env.umount # "hangs"
    /\ proc' = IF env.umount = "missing" THEN "crashed" ELSE "exit"
    /\ mounted' = IF env.umount = "ok" THEN FALSE ELSE mounted
    /\ UNCHANGED <<object, env, tvars, zvars>>

\* sys.exit(0)
HandlerExit ==
    /\ proc = "exit"
    /\ proc' = "exited"
    /\ UNCHANGED <<object, mounted, env, tvars, zvars>>

NextSig ==
    \/ MainSetDir \/ MainMount \/ Deliver
    \/ HandlerTest \/ HandlerDiskutil \/ HandlerUmount \/ HandlerExit

SpecSig == InitSig /\ [][NextSig]_vars

\* --------------------------------------------------------- ZipFS (mount.py)
\* self.files: a dict keyed by filename, so a repeated name keeps its first
\* position and its last info
RECURSIVE DictOf(_, _)
DictOf(infos, acc) ==
    IF infos = <<>> THEN acc
    ELSE LET info == [filename  |-> Head(infos).filename,
                      file_size |-> Len(Head(infos).content)]
             at   == {i \in 1..Len(acc) : acc[i].filename = info.filename}
         IN  DictOf(Tail(infos),
                    IF at = {} THEN Append(acc, info)
                    ELSE [i \in 1..Len(acc) |-> IF i \in at THEN info ELSE acc[i]])

ZipFiles(c) == DictOf(infolist(c), <<>>)

\* '/'.join(parts)
RECURSIVE join(_)
join(parts) ==
    IF parts = <<>> THEN <<>>
    ELSE IF Len(parts) = 1 THEN parts[1]
    ELSE parts[1] \o <<"/">> \o join(Tail(parts))

\* '/' + '/'.join(parts) + '/'
DirKey(parts) == <<"/">> \o join(parts) \o <<"/">>

\* the dict dirs: keys in insertion order, and the list under each key
HasKey(d, k) == k \in DOMAIN d.lists
SetKey(d, k, v) ==
    [keys  |-> IF HasKey(d, k) THEN d.keys ELSE Append(d.keys, k),
     lists |-> Put(d.lists, k, v)]

\* for i in range(1, len(path_parts)): add the missing ancestor keys
RECURSIVE AddParents(_, _, _)
AddParents(d, path_parts, i) ==
    IF i >= Len(path_parts) THEN d
    ELSE LET dir_path == DirKey(SubSeq(path_parts, 1, i))
         IN  AddParents(IF HasKey(d, dir_path) THEN d ELSE SetKey(d, dir_path, <<>>),
                        path_parts, i + 1)

\* one turn of the loop over self.files
AddFile(d, file) ==
    LET path_parts == split(strip(file))
        d1 == AddParents(d, path_parts, 1)
    IN  IF endswith(file, "/")
        THEN SetKey(d1, DirKey(path_parts), <<>>)
        ELSE LET parent_dir == DirKey(SubSeq(path_parts, 1, Len(path_parts) - 1))
                 d2 == IF HasKey(d1, parent_dir) THEN d1
                       ELSE SetKey(d1, parent_dir, <<>>)
             IN  SetKey(d2, parent_dir,
                        Append(d2.lists[parent_dir], path_parts[Len(path_parts)]))

RECURSIVE BuildLoop(_, _)
BuildLoop(d, files) ==
    IF files = <<>> THEN d
    ELSE BuildLoop(AddFile(d, Head(files).filename), Tail(files))

build_directory_structure(files) ==
    BuildLoop(SetKey(NoDirs, RootPath, <<>>), files)

\* the names a sequence holds
Elems(q) == {q[i] : i \in 1..Len(q)}

\* ZipFS.readdir
zip_readdir(path) ==
    IF path = RootPath
    THEN LET entries ==
                 {strip(name) : name \in Elems(directories.lists[RootPath])}
                 \cup {LET parts == split(strip(d)) IN parts[Len(parts)] :
                          d \in Elems(directories.keys) \ {RootPath}}
         IN  [Reply("ok") EXCEPT !.names = <<Dot, DotDot>> \o sorted(entries)]
    ELSE IF HasKey(directories, path)
    THEN LET IsSub(d) == startswith(d, path) /\ d # path
             subdirs  == SelectSeq(directories.keys, IsSub)
             subdir_name(subdir) ==
                 split(strip(SubSeq(subdir, Len(path) + 1, Len(subdir))))[1]
         IN  [Reply("ok") EXCEPT !.names =
                 <<Dot, DotDot>> \o directories.lists[path]
                 \o [i \in 1..Len(subdirs) |-> subdir_name(subdirs[i])]]
    ELSE Reply("ENOENT")

\* the plain archives ZipFS is mounted on
InitZip ==
    \E k \in 0..MaxEntries : \E es \in EntryLists(k) :
        /\ ObjStart([prefix |-> 0, entries |-> es])
        /\ ThreadStart
        /\ SigOff
        /\ zfiles = <<>>
        /\ directories = NoDirs
        /\ zpc = "new"

\* ZipFS.__init__
ZipConstruct ==
    /\ zpc = "new"
    /\ zfiles' = ZipFiles(container)
    /\ directories' = build_directory_structure(ZipFiles(container))
    /\ zpc' = "mounted"
    /\ UNCHANGED <<object, tvars, svars>>

\* the paths readdir is called with: the keys of the structure, and the
\* paths the kernel sends (no trailing slash)
ZipPaths ==
    {RootPath} \cup Elems(directories.keys) \cup {<<"/">> \o n : n \in FileNames}

\* nothreads=True: one call at a time
ZipReaddir ==
    /\ zpc = "mounted"
    /\ ret = NoCall
    /\ \E path \in ZipPaths :
           ret' = [zip_readdir(path) EXCEPT !.op = "readdir", !.path = path]
    /\ UNCHANGED <<container, pc, zip_offset, xml_data, files_info, dirs, tvars,
                   svars, zvars>>

ZipReturn ==
    /\ zpc = "mounted"
    /\ ret # NoCall
    /\ ret' = NoCall
    /\ UNCHANGED <<container, pc, zip_offset, xml_data, files_info, dirs, tvars,
                   svars, zvars>>

NextZip == ZipConstruct \/ ZipReaddir \/ ZipReturn

SpecZip == InitZip /\ [][NextZip]_vars

\* ================================================================ claims
IsFileEntry(e) == ~endswith(e.filename, "/")
FileEntries == {container.entries[i] : i \in {j \in 1..Len(container.entries) :
                                                 IsFileEntry(container.entries[j])}}
PathOf(e) == <<"/">> \o e.filename
Slashes(s) == Cardinality({i \in 1..Len(s) : s[i] = "/"})

\* the paths /s1, /s1/s2, ... strictly above /s1/.../sk
ProperPrefixes(path) ==
    {SubSeq(path, 1, i - 1) : i \in {k \in 2..Len(path) : path[k] = "/"}}

\* C1: after construction, getattr('/' + n) reports a regular file of the
\* declared size s for every file entry (n, s) of the archive, whatever else
\* the archive lists.
C1_FileEntryIsFileOfItsSize ==
    (pc = "mounted" /\ ret.op = "getattr") =>
        \A e \in FileEntries :
            ret.path = PathOf(e) =>
                /\ ret.status = "ok"
                /\ ret.kind = "file"
                /\ ret.st_size = Len(e.content)

\* C2: after construction no path is both a file and a directory (an archive
\* that makes one is rejected, so it is never mounted).
C2_FilesAndDirsDisjoint ==
    pc = "mounted" => DOMAIN files_info \cap dirs = {}

\* C3: after construction the root and every proper prefix of every file
\* entry's path is in dirs, and getattr on it reports a directory.
C3_ParentsAreDirectories ==
    pc = "mounted" =>
        /\ RootPath \in dirs
        /\ getattr(RootPath).kind = "dir"
        /\ \A e \in FileEntries : \A q \in ProperPrefixes(PathOf(e)) :
               /\ q \in dirs
               /\ getattr(q).status = "ok"
               /\ getattr(q).kind = "dir"
        /\ (ret.op = "getattr" /\ \E e \in FileEntries :
                ret.path \in ProperPrefixes(PathOf(e)) \cup {RootPath})
             => ret.kind = "dir"

C3_Witness ==
    /\ pc = "mounted"
    /\ \A i \in 1..Len(container.entries) : IsFileEntry(container.entries[i])
    /\ ret.op = "getattr"
    /\ ret.kind = "dir"
    /\ Slashes(ret.path) = 2
    /\ \E e \in FileEntries : ret.path \in ProperPrefixes(PathOf(e))

ContentLen(path) ==
    IF path = MetadataPath THEN container.prefix
    ELSE Len(ZipData(container, Tail(path)))

ContentByte(path, i) ==
    IF path = MetadataPath THEN ByteAt(FileBytes(container), i)
    ELSE ZipData(container, Tail(path))[i + 1]

\* C5: read(p, length, offset) on a file path p with content c of length n
\* returns exactly c[offset .. min(offset + length, n)), and never fails.
C5_ReadReturnsTheRange ==
    (pc = "mounted" /\ ret.op = "read" /\ ret.path \in DOMAIN files_info) =>
        LET n   == ContentLen(ret.path)
            cnt == Max(0, Min(ret.offset + ret.size, n) - ret.offset)
        IN  /\ ret.status = "ok"
            /\ ret.data = [k \in 1..cnt |-> ContentByte(ret.path, ret.offset + k - 1)]

C5_Witness ==
    /\ pc = "mounted"
    /\ ret.op = "read"
    /\ ret.path \in DOMAIN files_info
    /\ ret.path # MetadataPath
    /\ ret.offset + ret.size > ContentLen(ret.path)
    /\ Len(ret.data) = 1
    /\ ret.status = "ok"

\* a one-segment name
Names1 == {<<s>> : s \in Segs}
JoinPath(p, x) == IF p = RootPath THEN p \o x ELSE p \o <<"/">> \o x
Range(q) == {q[i] : i \in 1..Len(q)}

\* C6: readdir(p) on a directory p returns '.', '..' and exactly the names
\* x with p/x in dirs or files_info, each once.
C6_ReaddirListsDirectChildren ==
    (pc = "mounted" /\ ret.op = "readdir" /\ ret.path \in dirs) =>
        /\ ret.status = "ok"
        /\ Range(ret.names) =
               {Dot, DotDot} \cup
               {x \in Names1 : JoinPath(ret.path, x) \in dirs \cup DOMAIN files_info}
        /\ \A i, j \in 1..Len(ret.names) : ret.names[i] = ret.names[j] => i = j

C6_Witness ==
    /\ pc = "mounted"
    /\ ret.op = "readdir"
    /\ ret.path = RootPath
    /\ \E e \in FileEntries : Slashes(e.filename) >= 1
    /\ \E e \in FileEntries : Slashes(e.filename) = 0 /\ e.filename # MetadataName
    /\ Len(ret.names) = 4

\* what the path resolver makes of a path: dirs first, then files
Resolves(path) ==
    IF path = RootPath \/ path \in dirs THEN "Directory"
    ELSE IF path \in DOMAIN files_info THEN "File" ELSE "NotFound"

\* C7: read on an unknown path fails with NotFound (ENOENT), read on a
\* directory fails with IsADirectory (EISDIR); neither returns bytes.
C7_ReadErrors ==
    (pc = "mounted" /\ ret.op = "read") =>
        /\ Resolves(ret.path) = "NotFound" =>
               ret.status = "ENOENT" /\ ret.data = <<>>
        /\ Resolves(ret.path) = "Directory" =>
               ret.status = "EISDIR" /\ ret.data = <<>>

\* C8: open with write intent (O_WRONLY or O_RDWR) fails with a read-only
\* violation on every path.
C8_WriteOpenRefused ==
    (pc = "mounted" /\ ret.op = "open" /\ ret.flags \in {O_WRONLY, O_RDWR}) =>
        ret.status = "EROFS"

\* where the archive's local-header signatures lie in the container file
RECURSIVE RecordOffsets(_, _)
RecordOffsets(es, at) ==
    IF es = <<>> THEN {}
    ELSE {at} \cup RecordOffsets(Tail(es),
              at + 30 + Len(Head(es).filename) + Len(Head(es).content))

SigOffsets == RecordOffsets(container.entries, container.prefix)
SigInWindow == {o \in SigOffsets : o + 4 <= KiB16}

\* C9: construction fails (RuntimeError, no ZIP signature) exactly when no
\* signature lies within the first 16 KiB; otherwise zip_offset is the first
\* occurrence; after a failure no index exists and no call is ever answered.
C9_SignatureDecidesConstruction ==
    /\ pc = "failed" => SigInWindow = {}
    /\ pc = "mounted" =>
           /\ SigInWindow # {}
           /\ zip_offset \in SigInWindow
           /\ \A o \in SigOffsets : zip_offset <= o
    /\ pc = "failed" =>
           /\ ret = NoCall
           /\ files_info = EmptyMap
           /\ dirs = {}
           /\ xml_data = <<>>
           /\ ~ENABLED (Getattr \/ Readdir \/ Read \/ Open)

C9_Witness ==
    /\ pc = "failed"
    /\ container.entries # <<>>
    /\ SigOffsets # {}

InFlight == {"seek", "zip_open", "skip", "read"}

\* C10: under any interleaving of getattr, readdir, open and read calls on
\* the worker threads, every read returns what it returns when it is the only
\* call, the index stays as construction left it, and no two reads in
\* progress use the same container handle.
C10_ReadsAreIndependent ==
    pc = "mounted" =>
        /\ \A t \in Threads :
               (tpc[t] = "done" /\ targs[t].op = "read") =>
                   tret[t] = read(targs[t].path, targs[t].size, targs[t].offset)
        /\ LET o == parse_ufdr(container, container.prefix)
           IN  /\ files_info = o.files_info
               /\ dirs = o.dirs
               /\ xml_data = o.xml_data
               /\ zip_offset = container.prefix
        /\ \A t, u \in Threads :
               (t # u /\ tpc[t] \in InFlight /\ tpc[u] \in InFlight) =>
                   th[t] # th[u]

C10_Witness ==
    /\ pc = "mounted"
    /\ tpc[1] = "done"
    /\ targs[1].op = "read"
    /\ targs[1].offset = 0
    /\ Len(tret[1].data) = 1
    /\ tpc[2] = "read"
    /\ targs[2].path = targs[1].path
    /\ targs[2].offset > 0
    /\ handles[th[2]].spos > 0

\* the path one segment above d (the root for a top-level path)
ParentPath(d) ==
    LET cut == CHOOSE k \in 1..Len(d) :
                   d[k] = "/" /\ \A j \in (k + 1)..Len(d) : d[j] # "/"
    IN  IF cut = 1 THEN RootPath ELSE SubSeq(d, 1, cut - 1)

\* C12: after construction every explicit directory entry is in dirs, and
\* dirs is closed under taking parents, so every directory is reachable from
\* the root through readdir listings.
C12_DirsClosedUnderParents ==
    pc = "mounted" =>
        /\ \A i \in 1..Len(container.entries) :
               ~IsFileEntry(container.entries[i]) =>
                   <<"/">> \o rstrip(container.entries[i].filename) \in dirs
        /\ \A d \in dirs \ {RootPath} : ParentPath(d) \in dirs

\* C11: a SIGINT or SIGTERM delivered while the mount directory is mounted
\* ends the process with the mount directory no longer mounted, whatever
\* the unmount commands do.
C11_ExitLeavesNoMount ==
    proc \in {"exited", "crashed"} => ~mounted

\* the archive's files that lie directly in the directory with key p
ZipChildFiles(p) ==
    {SubSeq(e.filename, Len(p), Len(e.filename)) :
        e \in {f \in FileEntries :
                  /\ startswith(<<"/">> \o f.filename, p)
                  /\ ~HasSlash(SubSeq(f.filename, Len(p), Len(f.filename)))}}

\* the directories of the structure that lie directly in the one with key p
ZipChildDirs(p) ==
    {SubSeq(d, Len(p) + 1, Len(d) - 1) :
        d \in {k \in DOMAIN directories.lists :
                  /\ startswith(k, p)
                  /\ Len(k) > Len(p) + 1
                  /\ ~HasSlash(SubSeq(k, Len(p) + 1, Len(k) - 1))}}

\* C13: ZipFS.readdir on a directory of the built structure, the root
\* included, yields '.', '..' and then each direct child file and each
\* direct child directory exactly once, and no name from deeper levels.
C13_ZipReaddirListsDirectChildren ==
    (zpc = "mounted" /\ ret.op = "readdir"
                     /\ ret.path \in DOMAIN directories.lists) =>
        /\ ret.status = "ok"
        /\ Len(ret.names) >= 2
        /\ ret.names[1] = Dot
        /\ ret.names[2] = DotDot
        /\ LET rest == SubSeq(ret.names, 3, Len(ret.names))
           IN  /\ Range(rest) = ZipChildFiles(ret.path) \cup ZipChildDirs(ret.path)
               /\ \A i, j \in 1..Len(rest) : rest[i] = rest[j] => i = j

====
